---- MODULE Spec2Model ----
(***************************************************************************)
(* cal-filter: removal of keyword-matching and duplicate events from a     *)
(* target calendar (src/api/index.py, src/calfilter.py).                   *)
(*                                                                         *)
(* Python values are modelled as follows.                                  *)
(*   - A property value (.dt of DTSTART / DTEND / UNTIL) is a record       *)
(*     [kind, day, tod, tz]: kind "absent" (the property is missing, so    *)
(*     event.get(..) is None), "date" (datetime.date) or "datetime"        *)
(*     (datetime.datetime, tz "naive" or "utc").                           *)
(*   - A title (SUMMARY) is a sequence of words.                           *)
(*   - The outcome of a call is a string: "True", "False", or the name of  *)
(*     the exception that escapes the call.                                *)
(***************************************************************************)
EXTENDS Integers, Sequences, FiniteSets, TLC

VARIABLES
  primary,   \* the primary calendar: the sequence of its events
  target,    \* the target calendar's subcomponents
  op,        \* the operation running, or the last one that ran
  status,    \* "idle", "running", "returned" or "raised"
  exc,       \* the exception that ended the operation, "none" otherwise
  pass,      \* filter_duplicates: 1 = recurring loop, 2 = non-recurring loop
  i,         \* index of event1 in primary_calendar.walk("VEVENT")
  snapshot,  \* the list calendar.walk("VEVENT") returned for the running loop
  j,         \* index of the loop's event in snapshot (0: no inner loop runs)
  filtered,  \* the local counter `filtered`
  calls,     \* operations called so far
  target0,   \* history: the target calendar when the operation was called
  prevOp,    \* history: the operation that returned just before this one
  prevFiltered, \* history: the events that operation removed
  attempts,  \* history: remove calls made for each event the keyword loop visited
  compared,  \* history: the pairs filter_duplicates has compared
  result     \* the value of a single function application (SpecPair)

vars == <<primary, target, op, status, exc, pass, i, snapshot, j, filtered,
          calls, target0, prevOp, prevFiltered, attempts, compared, result>>

\* ------------------------------------------------------------------ bounds
MaxDay      == 1   \* calendar days 0..MaxDay (day 0 is a Monday)
MaxTod      == 1   \* time-of-day slots 0..MaxTod
MaxCount    == 2   \* COUNT values 1..MaxCount
MaxInterval == 2   \* INTERVAL values 1..MaxInterval
MaxPrimary  == 2   \* events in the primary calendar
MaxTarget   == 2   \* events in the target calendar
MaxCalls    == 2   \* calls of the two filter operations in one behaviour

\* ------------------------------------------------------- program constants
FUZZY_MATCH_THRESHOLD == 90

FILTER_PHRASES == <<"OOF", "Blocked", "Lunch">>

\* ----------------------------------------------------------- time values
SlotsPerDay == MaxTod + 1

Absent == [kind |-> "absent", day |-> 0, tod |-> 0, tz |-> "naive"]

Date(d) == [kind |-> "date", day |-> d, tod |-> 0, tz |-> "naive"]

DateTime(d, t, z) == [kind |-> "datetime", day |-> d, tod |-> t, tz |-> z]

Instant(v) == v.day * SlotsPerDay + v.tod

\* Python's  a <= b  on datetime.date / datetime.datetime objects.
PyLE(a, b) ==
  IF a.kind # b.kind THEN "TypeError"
  ELSE IF a.kind = "date" THEN (IF a.day <= b.day THEN "True" ELSE "False")
  ELSE IF a.tz # b.tz THEN "TypeError"
  ELSE IF Instant(a) <= Instant(b) THEN "True" ELSE "False"

\* Python's  x and y  on outcomes: y is evaluated only when x is True.
PyAnd(x, y) == IF x = "True" THEN y ELSE x

\* ---------------------------------------------------------------- titles
Standup      == <<"Standup">>
TeamStandup  == <<"Team", "Standup">>
Team1Sync    == <<"Team1", "Sync">>
Team2Sync    == <<"Team2", "Sync">>
TeamSync     == <<"Team", "Sync">>
LunchBlocked == <<"Lunch", "Blocked">>
OffsiteOOF   == <<"Offsite", "OOF">>

Titles == {Standup, TeamStandup, Team1Sync, Team2Sync, TeamSync,
           LunchBlocked, OffsiteOOF}

\* Python's  phrase in summary  (substring containment, at word granularity).
PhraseIn(phrase, summary) == \E n \in 1..Len(summary) : summary[n] = phrase

\* thefuzz's fuzz.partial_ratio on the titles above (the best alignment of the
\* shorter title against a window of the longer one, 0..100, rounded).
partial_ratio(a, b) ==
  IF a = b THEN 100
  ELSE LET p == {a, b} IN
    CASE p = {Standup, TeamStandup}      -> 100
      [] p = {Team1Sync, Team2Sync}      -> 90
      [] p = {Team1Sync, TeamSync}       -> 89
      [] p = {Team2Sync, TeamSync}       -> 89
      [] p = {TeamStandup, TeamSync}     -> 80
      [] p = {TeamStandup, Team1Sync}    -> 75
      [] p = {TeamStandup, Team2Sync}    -> 75
      [] p = {Standup, Team1Sync}        -> 36
      [] p = {Standup, Team2Sync}        -> 36
      [] p = {Standup, TeamSync}         -> 36
      [] p = {Standup, LunchBlocked}     -> 25
      [] p = {Standup, OffsiteOOF}       -> 15
      [] p = {TeamStandup, LunchBlocked} -> 29
      [] p = {TeamStandup, OffsiteOOF}   -> 25
      [] p = {LunchBlocked, OffsiteOOF}  -> 15
      [] p = {LunchBlocked, Team1Sync}   -> 29
      [] p = {LunchBlocked, Team2Sync}   -> 29
      [] p = {LunchBlocked, TeamSync}    -> 31
      [] p = {OffsiteOOF, Team1Sync}     -> 27
      [] p = {OffsiteOOF, Team2Sync}     -> 27
      [] p = {OffsiteOOF, TeamSync}      -> 29

\* ---------------------------------------------------------------- events
\* An RRULE property: count 0 stands for "no COUNT", until Absent for "no
\* UNTIL", byday {} for "no BYDAY"; freq "NONE" is an event without RRULE.
NoRule == [freq |-> "NONE", interval |-> 1, byday |-> {}, wkst |-> 0,
           count |-> 0, until |-> Absent]

Rule(f, n, bd, ws, c, u) ==
  [freq |-> f, interval |-> n, byday |-> bd, wkst |-> ws, count |-> c, until |-> u]

Event(s, st, en, r) == [summary |-> s, dtstart |-> st, dtend |-> en, rrule |-> r]

HasRRule(e) == e.rrule.freq # "NONE"

\* ---------------------------------------------------------- events_overlap
\* The closed-interval test of the last line of events_overlap; in time_only
\* mode on the .time() of the four values (a naive time of day).
OverlapTest(start1, end1, start2, end2, time_only) ==
  IF time_only
  THEN IF start1.tod <= end2.tod /\ end1.tod >= start2.tod THEN "True" ELSE "False"
  ELSE PyAnd(PyLE(start1, end2), PyLE(start2, end1))

TypeMismatch(start1, end1, start2, end2) ==
  start1.kind # start2.kind \/ end1.kind # end2.kind

events_overlap(event1, event2, time_only) ==
  LET start1 == event1.dtstart
      end1   == event1.dtend
      start2 == event2.dtstart
      end2   == event2.dtend
  IN
  \* event.get(..) is None: .dt raises AttributeError, caught, return False
  IF Absent \in {start1, end1, start2, end2} THEN "False"
  ELSE IF TypeMismatch(start1, end1, start2, end2) THEN "False"
  \* datetime.date has no .time(): AttributeError outside the try block
  ELSE IF time_only /\ "date" \in {start1.kind, end1.kind, start2.kind, end2.kind}
       THEN "AttributeError"
  ELSE OverlapTest(start1, end1, start2, end2, time_only)

\* ------------------------------------------------------ dateutil.rrule
Horizon == MaxDay + 7 * MaxInterval * MaxCount

\* rrule.__init__: a dtstart that is a date becomes a naive datetime at 00:00.
AsDateTime(v) == IF v.kind = "date" THEN DateTime(v.day, 0, "naive") ELSE v

\* rrule.rrulestr(RRULE text, dtstart = event.get('DTSTART').dt): the argument
\* .dt raises AttributeError when DTSTART is missing; rrule refuses an UNTIL
\* whose timezone-awareness differs from dtstart's with ValueError.
rrulestr(event) ==
  LET r  == event.rrule
      ds == AsDateTime(event.dtstart)
      un == AsDateTime(r.until)
      obj == [dtstart |-> ds, freq |-> r.freq, interval |-> r.interval,
              byday |-> r.byday, wkst |-> r.wkst, count |-> r.count, until |-> un]
  IN
  IF event.dtstart = Absent THEN [exc |-> "AttributeError", rule |-> obj]
  ELSE IF un # Absent /\ un.tz # ds.tz THEN [exc |-> "ValueError", rule |-> obj]
  ELSE [exc |-> "none", rule |-> obj]

\* rrule.replace(dtstart, wkst, count, until)
Replace(rule, ds, ws, c, u) ==
  [rule EXCEPT !.dtstart = ds, !.wkst = ws, !.count = c, !.until = u]

\* str(rule): DTSTART, FREQ, INTERVAL, WKST, COUNT, UNTIL and the BY* parts
\* the rule text gave (the time zone of DTSTART and UNTIL is not printed).
Str(rule) ==
  <<Instant(rule.dtstart), rule.freq, rule.interval, rule.wkst, rule.count,
    IF rule.until = Absent THEN <<>> ELSE <<Instant(rule.until)>>, rule.byday>>

IsFinite(rule) == rule.count # 0 \/ rule.until # Absent

WeekNo(d, ws) == (d + 7 - ws) \div 7

\* The days the rule's pattern selects, from dtstart's day on.
PatternDays(rule) ==
  LET d0 == rule.dtstart.day
      bd == IF rule.byday = {} THEN {d0 % 7} ELSE rule.byday
  IN {d \in d0..Horizon :
        IF rule.freq = "DAILY"
        THEN /\ (d - d0) % rule.interval = 0
             /\ (rule.byday = {} \/ (d % 7) \in rule.byday)
        ELSE /\ (d % 7) \in bd
             /\ (WeekNo(d, rule.wkst) - WeekNo(d0, rule.wkst)) % rule.interval = 0}

\* The rule's occurrences (as instants), cut by COUNT and UNTIL.
Occurrences(rule) ==
  LET days == PatternDays(rule)
      cut  == IF rule.count = 0 THEN days
              ELSE {d \in days : Cardinality({x \in days : x < d}) < rule.count}
      inst == {d * SlotsPerDay + rule.dtstart.tod : d \in cut}
  IN IF rule.until = Absent THEN inst
     ELSE {x \in inst : x <= Instant(rule.until)}

SetMax(S) == CHOOSE x \in S : \A y \in S : y <= x

\* rule.between(after, before), inc = False: the occurrences strictly between.
Between(rule, after, before) == {x \in Occurrences(rule) : after < x /\ x < before}

\* The bounded-overlap step for the finite rule `fin` and the other rule:
\* dtend = fin[-1] (IndexError when fin has no occurrence), then
\* len(other.between(fin._dtstart, dtend)) == 0, whose comparisons raise
\* TypeError when the two rules differ in timezone-awareness.
WindowCheck(fin, other) ==
  IF Occurrences(fin) = {} THEN "IndexError"
  ELSE IF Occurrences(other) # {} /\ other.dtstart.tz # fin.dtstart.tz THEN "TypeError"
  ELSE IF Between(other, Instant(fin.dtstart), SetMax(Occurrences(fin))) = {}
       THEN "False" ELSE "True"

\* Mutant of BoundedOverlap: the two branches in the other order.
BoundedOverlapSecondFirst(rule1, rule2) ==
  IF IsFinite(rule2) THEN WindowCheck(rule2, rule1)
  ELSE IF IsFinite(rule1) THEN WindowCheck(rule1, rule2)
  ELSE "True"

BoundedOverlap(rule1, rule2) ==
  IF IsFinite(rule1) THEN WindowCheck(rule1, rule2)
  ELSE IF IsFinite(rule2) THEN WindowCheck(rule2, rule1)
  ELSE "True"

TitleAccepted(event1, event2) ==
  partial_ratio(event1.summary, event2.summary) >= FUZZY_MATCH_THRESHOLD

recurring_events_are_equal(event1, event2) ==
  LET p1 == rrulestr(event1)
      p2 == rrulestr(event2)
      rule1 == p1.rule
      rule2 == p2.rule
      dummy_rule == Replace(rule2, rule1.dtstart, rule1.wkst, rule1.count, rule1.until)
  IN
  IF ~HasRRule(event1) \/ ~HasRRule(event2) THEN "AssertionError"
  ELSE IF ~TitleAccepted(event1, event2) THEN "False"
  ELSE IF p1.exc # "none" THEN p1.exc
  ELSE IF p2.exc # "none" THEN p2.exc
  ELSE IF Str(rule1) # Str(dummy_rule) THEN "False"
  ELSE IF BoundedOverlap(rule1, rule2) # "True" THEN BoundedOverlap(rule1, rule2)
  ELSE events_overlap(event1, event2, TRUE)

\* The test of the non-recurring pass of filter_duplicates.
single_events_are_equal(event1, event2) ==
  PyAnd(events_overlap(event1, event2, FALSE),
        IF TitleAccepted(event1, event2) THEN "True" ELSE "False")

\* ------------------------------------------- calfilter.py filter_duplicates
\* The span [first, last] of instants an event's value pair covers; a missing
\* DTEND counts as an empty duration.
SpanEnd(event) ==
  IF event.dtend = Absent THEN Instant(AsDateTime(event.dtstart))
  ELSE Instant(AsDateTime(event.dtend))

Duration(event) == SpanEnd(event) - Instant(AsDateTime(event.dtstart))

\* The start instants of the event's occurrences (one, without RRULE).
Starts(event) ==
  IF HasRRule(event) THEN Occurrences(rrulestr(event).rule)
  ELSE {Instant(AsDateTime(event.dtstart))}

\* Whether the event has an occurrence in the window [from, to].
OccursIn(event, from, to) ==
  /\ event.dtstart # Absent
  /\ \E x \in Starts(event) : x <= to /\ x + Duration(event) >= from

FirstStart(event, from, to) ==
  CHOOSE x \in Starts(event) :
    /\ x <= to /\ x + Duration(event) >= from
    /\ \A y \in Starts(event) : (y <= to /\ y + Duration(event) >= from) => x <= y

\* icalevents.events(string_content, start, end, sort = True): the events of
\* the primary calendar occurring in the window, the earliest first.  Only
\* result[0] is used: its index in the primary calendar, 0 for an empty result.
icalevents_first(primary_calendar, from, to) ==
  LET hits == {n \in 1..Len(primary_calendar) : OccursIn(primary_calendar[n], from, to)}
  IN IF hits = {} THEN 0
     ELSE CHOOSE n \in hits : \A m \in hits :
            \/ FirstStart(primary_calendar[n], from, to) < FirstStart(primary_calendar[m], from, to)
            \/ /\ FirstStart(primary_calendar[n], from, to) = FirstStart(primary_calendar[m], from, to)
               /\ n <= m

CalfilterTitleAccepted(summary1, summary2) == partial_ratio(summary1, summary2) > 90

\* The body of the loop of calfilter.filter_duplicates for one target event:
\* "True" (remove it), "False" (keep it) or the exception that escapes.
calfilter_is_duplicate(primary_calendar, event) ==
  IF event.dtstart = Absent \/ event.dtend = Absent THEN "AttributeError"
  ELSE LET n == icalevents_first(primary_calendar,
                                 Instant(AsDateTime(event.dtstart)),
                                 Instant(AsDateTime(event.dtend)))
       IN IF n = 0 THEN "False"
          ELSE IF CalfilterTitleAccepted(event.summary, primary_calendar[n].summary)
               THEN "True" ELSE "False"

\* ------------------------------------------------- Component.subcomponents
\* list.remove(x): drops the first element equal to x.
RECURSIVE RemoveFirst(_, _)
RemoveFirst(seq, x) ==
  IF seq = <<>> THEN <<>>
  ELSE IF Head(seq) = x THEN Tail(seq)
  ELSE <<Head(seq)>> \o RemoveFirst(Tail(seq), x)

Elements(seq) == {seq[n] : n \in 1..Len(seq)}

\* Mutant of remove: drops the head of the list, whatever the event.
remove_head(subcomponents, event) ==
  IF subcomponents = <<>> THEN [exc |-> "ValueError", list |-> subcomponents]
  ELSE [exc |-> "none", list |-> Tail(subcomponents)]

\* calendar.subcomponents.remove(event): ValueError when no element equals it.
remove(subcomponents, event) ==
  IF event \in Elements(subcomponents)
  THEN [exc |-> "none", list |-> RemoveFirst(subcomponents, event)]
  ELSE [exc |-> "ValueError", list |-> subcomponents]

\* calendar.walk("VEVENT"): a new list of the calendar's events.
walk(calendar) == calendar

\* Mutant of advance: the loop runs over the calendar's own list, so the
\* element after a removed one moves into its place and is passed over.
advance_live(index, removed) == IF removed THEN index + 2 ELSE index + 1

\* The next index of a `for` loop over the list walk returned: the list is a
\* copy, so a removal from the calendar does not shift the loop.
advance(index, removed) == index + 1

\* calfilter.filter_duplicates as a whole: the target calendar it leaves and
\* the exception that ended it ("none" when it returned).
RECURSIVE calfilter_loop(_, _, _)
calfilter_loop(primary_calendar, events, calendar) ==
  IF events = <<>> THEN [exc |-> "none", list |-> calendar]
  ELSE LET d == calfilter_is_duplicate(primary_calendar, Head(events))
           r == remove(calendar, Head(events))
       IN IF d = "False" THEN calfilter_loop(primary_calendar, Tail(events), calendar)
          ELSE IF d # "True" THEN [exc |-> d, list |-> calendar]
          ELSE IF r.exc # "none" THEN r
          ELSE calfilter_loop(primary_calendar, Tail(events), r.list)

calfilter_filter_duplicates(primary_calendar, target_calendar) ==
  calfilter_loop(primary_calendar, walk(target_calendar), target_calendar)

\* ----------------------------------------------- filter_events_by_keyword
\* The inner loop `for phrase in FILTER_PHRASES` for one event: every phrase
\* the title contains calls remove once more.
RECURSIVE keyword_inner(_, _, _, _, _)
keyword_inner(phraseList, event, calendar, count, tries) ==
  IF phraseList = <<>>
  THEN [exc |-> "none", list |-> calendar, filtered |-> count, tries |-> tries]
  ELSE IF ~PhraseIn(Head(phraseList), event.summary)
  THEN keyword_inner(Tail(phraseList), event, calendar, count, tries)
  ELSE LET r == remove(calendar, event)
       IN IF r.exc # "none"
          THEN [exc |-> r.exc, list |-> calendar, filtered |-> count, tries |-> tries + 1]
          ELSE keyword_inner(Tail(phraseList), event, r.list, count + 1, tries + 1)

NoResult == [fn |-> "none", time_only |-> FALSE, out |-> "none", list |-> <<>>]

CallKeyword ==
  /\ op # "eval" /\ status \in {"idle", "returned"} /\ calls < MaxCalls
  /\ op' = "filter_events_by_keyword" /\ status' = "running"
  /\ prevOp' = (IF status = "returned" THEN op ELSE "none")
  /\ prevFiltered' = filtered
  /\ calls' = calls + 1
  /\ snapshot' = walk(target) /\ j' = 1 /\ filtered' = 0
  /\ target0' = target /\ attempts' = <<>> /\ compared' = {}
  /\ UNCHANGED <<primary, target, exc, pass, i, result>>

\* One iteration of `for event in calendar.walk("VEVENT")`.
KeywordEvent ==
  /\ op = "filter_events_by_keyword" /\ status = "running" /\ j <= Len(snapshot)
  /\ LET r == keyword_inner(FILTER_PHRASES, snapshot[j], target, filtered, 0)
     IN /\ target' = r.list
        /\ filtered' = r.filtered
        /\ attempts' = Append(attempts, r.tries)
        /\ exc' = r.exc
        /\ status' = (IF r.exc = "none" THEN "running" ELSE "raised")
  /\ j' = advance(j, target' # target)
  /\ UNCHANGED <<primary, op, pass, i, snapshot, calls, target0, prevOp, prevFiltered,
                 compared, result>>

KeywordReturn ==
  /\ op = "filter_events_by_keyword" /\ status = "running" /\ j > Len(snapshot)
  /\ status' = "returned"
  /\ UNCHANGED <<primary, target, op, exc, pass, i, snapshot, j, filtered, calls,
                 target0, prevOp, prevFiltered, attempts, compared, result>>

\* ------------------------------------------------------- filter_duplicates
\* Mutant of Skipped: the second loop lacks its two `continue` tests.
SkippedFirstLoopOnly(loop, event) == loop = 1 /\ ~HasRRule(event)

\* `if event.get('RRULE') is None: continue` in the first loop,
\* `if event.get('RRULE') is not None: continue` in the second.
Skipped(loop, event) == IF loop = 1 THEN ~HasRRule(event) ELSE HasRRule(event)

\* Mutant of is_duplicate: the second loop tests the overlap alone.
is_duplicate_without_title(loop, event1, event2) ==
  IF loop = 1 THEN recurring_events_are_equal(event1, event2)
  ELSE events_overlap(event1, event2, FALSE)

\* The test that decides the removal of event2 in the given loop.
is_duplicate(loop, event1, event2) ==
  IF loop = 1 THEN recurring_events_are_equal(event1, event2)
  ELSE single_events_are_equal(event1, event2)

CallDuplicates ==
  /\ op # "eval" /\ status \in {"idle", "returned"} /\ calls < MaxCalls
  /\ op' = "filter_duplicates" /\ status' = "running"
  /\ prevOp' = (IF status = "returned" THEN op ELSE "none")
  /\ prevFiltered' = filtered
  /\ calls' = calls + 1
  /\ pass' = 1 /\ i' = 1 /\ snapshot' = <<>> /\ j' = 0 /\ filtered' = 0
  /\ target0' = target /\ attempts' = <<>> /\ compared' = {}
  /\ UNCHANGED <<primary, target, exc, result>>

\* One iteration of `for event1 in primary_calendar.walk("VEVENT")` up to the
\* start of its inner loop.
NextPrimary ==
  /\ op = "filter_duplicates" /\ status = "running" /\ j = 0 /\ i <= Len(primary)
  /\ IF Skipped(pass, primary[i]) \/ walk(target) = <<>>
     THEN i' = i + 1 /\ UNCHANGED <<snapshot, j>>
     ELSE snapshot' = walk(target) /\ j' = 1 /\ UNCHANGED i
  /\ UNCHANGED <<primary, target, op, status, exc, pass, filtered, calls, target0,
                 prevOp, prevFiltered, attempts, compared, result>>

\* One iteration of `for event2 in target_calendar.walk("VEVENT")`.
ComparePair ==
  /\ op = "filter_duplicates" /\ status = "running" /\ j >= 1 /\ j <= Len(snapshot)
  /\ LET event1 == primary[i]
         event2 == snapshot[j]
         d == is_duplicate(pass, event1, event2)
         r == remove(target, event2)
     IN IF Skipped(pass, event2)
        THEN UNCHANGED <<target, filtered, status, exc, compared>>
        ELSE /\ compared' = compared \cup
                   {[loop |-> pass, event1 |-> event1, event2 |-> event2, out |-> d]}
             /\ IF d = "False" THEN UNCHANGED <<target, filtered, status, exc>>
                ELSE IF d # "True"
                THEN status' = "raised" /\ exc' = d /\ UNCHANGED <<target, filtered>>
                ELSE IF r.exc # "none"
                THEN status' = "raised" /\ exc' = r.exc /\ UNCHANGED <<target, filtered>>
                ELSE target' = r.list /\ filtered' = filtered + 1
                     /\ UNCHANGED <<status, exc>>
  /\ IF advance(j, target' # target) > Len(snapshot)
     THEN i' = i + 1 /\ j' = 0
     ELSE j' = advance(j, target' # target) /\ UNCHANGED i
  /\ UNCHANGED <<primary, op, pass, snapshot, calls, target0, prevOp, prevFiltered,
                 attempts, result>>

\* The end of a loop over the primary calendar: the second loop, or the return.
EndOfLoop ==
  /\ op = "filter_duplicates" /\ status = "running" /\ j = 0 /\ i > Len(primary)
  /\ IF pass = 1 THEN pass' = 2 /\ i' = 1 /\ UNCHANGED status
     ELSE status' = "returned" /\ UNCHANGED <<pass, i>>
  /\ UNCHANGED <<primary, target, op, exc, snapshot, j, filtered, calls, target0,
                 prevOp, prevFiltered, attempts, compared, result>>

\* --------------------------------------------------------- the calendars
RECURSIVE SeqsUpTo(_, _)
SeqsUpTo(S, n) ==
  IF n = 0 THEN {<<>>}
  ELSE SeqsUpTo(S, n - 1) \cup {Append(q, x) : q \in {r \in SeqsUpTo(S, n - 1) : Len(r) = n - 1}, x \in S}

Slot0 == DateTime(0, 0, "utc")
Slot1 == DateTime(0, MaxTod, "utc")

Daily(c, u) == Rule("DAILY", 1, {}, 0, c, u)

\* Events of the calendars the two operations run on: single and recurring,
\* with titles that match each other or a filter phrase, one without DTEND,
\* and one whose RRULE dateutil refuses (a naive UNTIL for an aware DTSTART).
SingleStandup     == Event(Standup, Slot0, Slot1, NoRule)
SingleTeamStandup == Event(TeamStandup, Slot0, Slot1, NoRule)
SingleLunch       == Event(LunchBlocked, Slot0, Slot1, NoRule)
SingleOffsite     == Event(OffsiteOOF, Slot0, Absent, NoRule)
DailyStandup      == Event(Standup, Slot0, Slot1, Daily(0, Absent))
DailyTeamStandup  == Event(TeamStandup, Slot1, Slot1, Daily(MaxCount, Absent))
DailyBadRule      == Event(Standup, Slot0, Slot1, Daily(0, Date(MaxDay)))

PrimaryEvents == {SingleStandup, DailyStandup, DailyTeamStandup, DailyBadRule}

TargetEvents == {SingleTeamStandup, SingleLunch, SingleOffsite,
                 DailyTeamStandup, DailyBadRule}

Init ==
  /\ primary \in SeqsUpTo(PrimaryEvents, MaxPrimary)
  /\ target \in SeqsUpTo(TargetEvents, MaxTarget)
  /\ op = "none" /\ status = "idle" /\ exc = "none"
  /\ pass = 1 /\ i = 1 /\ snapshot = <<>> /\ j = 0 /\ filtered = 0 /\ calls = 0
  /\ target0 = target /\ prevOp = "none" /\ prevFiltered = 0
  /\ attempts = <<>> /\ compared = {}
  /\ result = NoResult

Next ==
  \/ CallKeyword
  \/ KeywordEvent
  \/ KeywordReturn
  \/ CallDuplicates
  \/ NextPrimary
  \/ ComparePair
  \/ EndOfLoop

Spec == Init /\ [][Next]_vars

\* ------------------------------------------- single function applications
Days == 0..MaxDay
Tods == 0..MaxTod

TemporalValues ==
  {Absent} \cup {Date(d) : d \in Days}
           \cup {DateTime(d, t, z) : d \in Days, t \in Tods, z \in {"naive", "utc"}}

\* Inputs of events_overlap: every pair of start and end values.
IntervalEvents == {Event(Standup, s, e, NoRule) : s \in TemporalValues, e \in TemporalValues}

\* Inputs of the bounded-overlap step: daily rules of every interval and
\* boundary, on date and datetime events with or without DTSTART and DTEND.
RecurTimes ==
  {Absent} \cup {Date(d) : d \in Days} \cup {DateTime(d, t, "utc") : d \in Days, t \in Tods}

RecurBoundaries ==
  {<<c, Absent>> : c \in 0..MaxCount}
    \cup {<<0, DateTime(MaxDay, MaxTod, "utc")>>, <<0, Date(MaxDay)>>}

RecurEvents(title) ==
  {Event(title, s, e, Rule("DAILY", n, {}, 0, b[1], b[2])) :
     s \in RecurTimes, e \in {Absent}, n \in 1..MaxInterval, b \in RecurBoundaries}
  \cup
  {Event(title, s, s, Rule("DAILY", n, {}, 0, b[1], b[2])) :
     s \in RecurTimes \ {Absent}, n \in 1..MaxInterval, b \in RecurBoundaries}

\* Inputs of the title test: every pair of titles, single and recurring.
TitleEvents == {Event(t, Slot0, Slot1, r) : t \in Titles, r \in {NoRule, Daily(0, Absent)}}

\* Inputs of the rule comparison: every frequency, interval, BYDAY and WKST.
StructEvents ==
  {Event(Standup, DateTime(d, 0, "utc"), DateTime(d, 0, "utc"), Rule(f, n, bd, ws, c, Absent)) :
     d \in Days, f \in {"DAILY", "WEEKLY"}, n \in 1..MaxInterval,
     bd \in {{}, {0}, {1}, {0, 2}}, ws \in {0, 6}, c \in {0, MaxCount}}

InitPair ==
  /\ \/ primary \in {<<e>> : e \in TitleEvents} /\ target \in {<<e>> : e \in TitleEvents}
     \/ primary \in {<<e>> : e \in RecurEvents(Team1Sync)}
          /\ target \in {<<e>> : e \in RecurEvents(Team2Sync)}
     \/ primary \in {<<e>> : e \in StructEvents} /\ target \in {<<e>> : e \in StructEvents}
     \/ primary \in {<<e>> : e \in IntervalEvents} /\ target \in {<<e>> : e \in IntervalEvents}
  /\ op = "eval" /\ status = "idle" /\ exc = "none"
  /\ pass = 1 /\ i = 1 /\ snapshot = <<>> /\ j = 0 /\ filtered = 0 /\ calls = 0
  /\ target0 = target /\ prevOp = "none" /\ prevFiltered = 0
  /\ attempts = <<>> /\ compared = {}
  /\ result = NoResult

Applied(fn, mode, out, list) ==
  /\ op = "eval" /\ result = NoResult
  /\ result' = [fn |-> fn, time_only |-> mode, out |-> out, list |-> list]
  /\ UNCHANGED <<primary, target, op, status, exc, pass, i, snapshot, j, filtered,
                 calls, target0, prevOp, prevFiltered, attempts, compared>>

ApplyEventsOverlap ==
  \E mode \in BOOLEAN :
    Applied("events_overlap", mode, events_overlap(primary[1], target[1], mode), <<>>)

\* Called by filter_duplicates on two events with RRULE only.
ApplyRecurringEqual ==
  /\ HasRRule(primary[1]) /\ HasRRule(target[1])
  /\ Applied("recurring_events_are_equal", TRUE,
             recurring_events_are_equal(primary[1], target[1]), <<>>)

\* Evaluated by filter_duplicates on two events without RRULE only.
ApplySingleEqual ==
  /\ ~HasRRule(primary[1]) /\ ~HasRRule(target[1])
  /\ Applied("single_events_are_equal", FALSE,
             single_events_are_equal(primary[1], target[1]), <<>>)

ApplyCalfilterDuplicates ==
  LET r == calfilter_filter_duplicates(primary, target)
  IN Applied("calfilter_filter_duplicates", FALSE, r.exc, r.list)

NextPair ==
  \/ ApplyEventsOverlap
  \/ ApplyRecurringEqual
  \/ ApplySingleEqual
  \/ ApplyCalfilterDuplicates

SpecPair == InitPair /\ [][NextPair]_vars

\* recurring_events_are_equal alone, on the recurring inputs.
InitRecur ==
  /\ InitPair
  /\ HasRRule(primary[1]) /\ HasRRule(target[1])

NextRecur == ApplyRecurringEqual

SpecRecur == InitRecur /\ [][NextRecur]_vars

\* =================================================================== claims
RECURSIVE IsSubsequence(_, _)
IsSubsequence(a, b) ==
  IF a = <<>> THEN TRUE
  ELSE IF b = <<>> THEN FALSE
  ELSE IF Head(a) = Head(b) THEN IsSubsequence(Tail(a), Tail(b))
  ELSE IsSubsequence(a, Tail(b))

DropAt(seq, n) == SubSeq(seq, 1, n - 1) \o SubSeq(seq, n + 1, Len(seq))

SameKind(event1, event2) == HasRRule(event1) = HasRRule(event2)

\* event is judged a duplicate of a primary event of its own kind.
JudgedDuplicate(event) ==
  \E n \in 1..Len(primary) :
    /\ SameKind(primary[n], event)
    /\ IF HasRRule(event)
       THEN recurring_events_are_equal(primary[n], event) = "True"
       ELSE single_events_are_equal(primary[n], event) = "True"

NotJudgedDuplicate(event) == ~JudgedDuplicate(event)

\* C1: when filter_duplicates has returned, the target calendar holds exactly
\* the events it held at the call that are not judged a duplicate of a primary
\* event of the same kind, in their order: an event was removed if and only if
\* it was judged a duplicate, and no event that remains is one.
C1_RemovedIffJudgedDuplicate ==
  (op = "filter_duplicates" /\ status = "returned")
    => target = SelectSeq(target0, NotJudgedDuplicate)

\* Witness of C1: a call has returned that removed one of two events.
C1_Witness ==
  /\ op = "filter_duplicates" /\ status = "returned"
  /\ Len(target0) = 2 /\ Len(target) = 1 /\ filtered = 1

ContainsPhrase(event) ==
  \E n \in 1..Len(FILTER_PHRASES) : PhraseIn(FILTER_PHRASES[n], event.summary)

ContainsNoPhrase(event) == ~ContainsPhrase(event)

\* C2: filter_events_by_keyword completes normally, calls remove at most once
\* for an event however many phrases its title contains, and leaves exactly
\* the events whose title contains no phrase.
C2_RemovedExactlyOnce ==
  op = "filter_events_by_keyword" =>
    /\ status # "raised"
    /\ \A n \in 1..Len(attempts) : attempts[n] <= 1
    /\ status = "returned" => target = SelectSeq(target0, ContainsNoPhrase)

\* C3: a call of filter_duplicates right after a call of filter_duplicates
\* that returned removes no event and leaves the target calendar as it found it.
C3_SecondRunRemovesNothing ==
  (op = "filter_duplicates" /\ prevOp = "filter_duplicates")
    => (target = target0 /\ filtered = 0)

\* Witness of C3: the second of two calls has returned, the first having
\* removed an event.
C3_Witness ==
  /\ op = "filter_duplicates" /\ prevOp = "filter_duplicates"
  /\ status = "returned" /\ prevFiltered > 0 /\ target # <<>>

\* Start or end data the decision cannot use: a missing DTSTART or DTEND,
\* values of different kinds on the two sides, or (where only the time of day
\* is compared) a date without a time.
TemporalDefect(event1, event2, time_only) ==
  \/ Absent \in {event1.dtstart, event1.dtend, event2.dtstart, event2.dtend}
  \/ TypeMismatch(event1.dtstart, event1.dtend, event2.dtstart, event2.dtend)
  \/ /\ time_only
     /\ "date" \in {event1.dtstart.kind, event1.dtend.kind,
                    event2.dtstart.kind, event2.dtend.kind}

\* C4: the duplicate decision on a pair with missing, mismatched or date-only
\* start or end data is "not a duplicate", and no exception escapes, in the
\* non-recurring test (events_overlap on full instants) and in
\* recurring_events_are_equal (with its time-of-day overlap).
C4_TemporalDataNeverRaises ==
  (/\ result.fn \in {"single_events_are_equal", "recurring_events_are_equal"}
   /\ TemporalDefect(primary[1], target[1], result.fn = "recurring_events_are_equal"))
    => result.out = "False"

\* C5: filter_duplicates is not ended by the failure of a comparison: it
\* never stops with the exception a compared pair raised.
C5_PairFailureDoesNotAbort ==
  ~(/\ op = "filter_duplicates" /\ status = "raised"
    /\ \E c \in compared : c.out = exc)

\* C6: every step of filter_duplicates leaves the primary calendar unchanged
\* and either leaves the target calendar unchanged or removes from it one
\* element equal to the event the inner loop is at; the target calendar stays
\* a subsequence, in order, of the target calendar at the call.
C6_OnlyRemovesMatchedFromTarget ==
  [][(op' = "filter_duplicates") =>
       /\ primary' = primary
       /\ \/ target' = target
          \/ \E n \in 1..Len(target) :
               /\ j >= 1 /\ j <= Len(snapshot)
               /\ target[n] = snapshot[j]
               /\ target' = DropAt(target, n)
       /\ IsSubsequence(target', target0')]_vars

\* Witness of C6: the call is running, has removed an event and kept another.
C6_Witness ==
  /\ op = "filter_duplicates" /\ status = "running"
  /\ filtered >= 1 /\ target # <<>> /\ Len(target) < Len(target0)

IsSingle(event) == ~HasRRule(event)

Singles(seq) == SelectSeq(seq, IsSingle)

Recurrings(seq) == SelectSeq(seq, HasRRule)

OnlyRecurringPrimary == \A n \in 1..Len(primary) : HasRRule(primary[n])

OnlySinglePrimary == \A n \in 1..Len(primary) : ~HasRRule(primary[n])

\* C7: filter_duplicates compares no pair of a recurring and a non-recurring
\* event; with only recurring primary events every non-recurring target event
\* survives, with only non-recurring primary events every recurring one does.
C7_MixedPairsNeverCompared ==
  op = "filter_duplicates" =>
    /\ \A c \in compared : SameKind(c.event1, c.event2)
    /\ OnlyRecurringPrimary => Singles(target) = Singles(target0)
    /\ OnlySinglePrimary => Recurrings(target) = Recurrings(target0)

\* Witness of C7: a call has returned with only recurring primary events and
\* a surviving non-recurring target event that the non-recurring test would
\* match with one of them.
C7_Witness ==
  /\ op = "filter_duplicates" /\ status = "returned"
  /\ primary # <<>> /\ OnlyRecurringPrimary
  /\ \E n \in 1..Len(primary), m \in 1..Len(target) :
       /\ ~HasRRule(target[m])
       /\ single_events_are_equal(primary[n], target[m]) = "True"

BoolOutcome(b) == IF b THEN "True" ELSE "False"

\* The closed-interval predicate on the values as instants (a date at 00:00),
\* or on their times of day.
ReferenceOverlap(event1, event2, time_only) ==
  LET s1 == AsDateTime(event1.dtstart)
      e1 == AsDateTime(event1.dtend)
      s2 == AsDateTime(event2.dtstart)
      e2 == AsDateTime(event2.dtend)
  IN
  IF Absent \in {event1.dtstart, event1.dtend, event2.dtstart, event2.dtend}
    THEN "False"
  ELSE IF event1.dtstart.kind # event2.dtstart.kind \/ event1.dtend.kind # event2.dtend.kind
    THEN "False"
  ELSE IF time_only THEN BoolOutcome(s1.tod <= e2.tod /\ e1.tod >= s2.tod)
  ELSE BoolOutcome(Instant(s1) <= Instant(e2) /\ Instant(e1) >= Instant(s2))

\* C8: events_overlap returns what the reference closed-interval predicate
\* gives, for every pair of events and in both modes.
C8_AgreesWithReference ==
  result.fn = "events_overlap"
    => result.out = ReferenceOverlap(primary[1], target[1], result.time_only)

\* The pair reaches the bounded-overlap step: the titles match, both rules
\* are built and their serializations are equal.
ReachesBoundedStep(event1, event2) ==
  /\ HasRRule(event1) /\ HasRRule(event2)
  /\ partial_ratio(event1.summary, event2.summary) >= 90
  /\ rrulestr(event1).exc = "none" /\ rrulestr(event2).exc = "none"
  /\ Str(rrulestr(event1).rule)
       = Str(Replace(rrulestr(event2).rule, rrulestr(event1).rule.dtstart,
                     rrulestr(event1).rule.wkst, rrulestr(event1).rule.count,
                     rrulestr(event1).rule.until))

\* An occurrence of `other` falls within the window of the finite rule, from
\* its start to its last occurrence.
OccursInWindow(fin, other) ==
  /\ Occurrences(fin) # {}
  /\ \E x \in Occurrences(other) :
       Instant(fin.dtstart) <= x /\ x <= SetMax(Occurrences(fin))

\* C9 as stated: past the title and structure tests, the pair is judged a
\* duplicate only if, for each finite rule of the two, an occurrence of the
\* other rule falls within its window; with two infinite rules the result is
\* that of the time-of-day overlap.
C9_EachFiniteWindowChecked ==
  (result.fn = "recurring_events_are_equal" /\ ReachesBoundedStep(primary[1], target[1])) =>
    LET rule1 == rrulestr(primary[1]).rule
        rule2 == rrulestr(target[1]).rule
    IN /\ result.out = "True" =>
            /\ IsFinite(rule1) => OccursInWindow(rule1, rule2)
            /\ IsFinite(rule2) => OccursInWindow(rule2, rule1)
       /\ (~IsFinite(rule1) /\ ~IsFinite(rule2)) =>
            result.out = events_overlap(primary[1], target[1], TRUE)

\* C9 as amended: the window that is checked is the first event's when its
\* rule is finite, and the second event's only when the first rule is
\* infinite; with two infinite rules the result is that of the time-of-day
\* overlap.
C9_FirstFiniteWindowChecked ==
  (result.fn = "recurring_events_are_equal" /\ ReachesBoundedStep(primary[1], target[1])) =>
    LET rule1 == rrulestr(primary[1]).rule
        rule2 == rrulestr(target[1]).rule
    IN /\ result.out = "True" =>
            /\ IsFinite(rule1) => OccursInWindow(rule1, rule2)
            /\ (~IsFinite(rule1) /\ IsFinite(rule2)) => OccursInWindow(rule2, rule1)
       /\ (~IsFinite(rule1) /\ ~IsFinite(rule2)) =>
            result.out = events_overlap(primary[1], target[1], TRUE)

\* Witness of C9: two finite rules, judged duplicates.
C9_Witness ==
  /\ result.fn = "recurring_events_are_equal" /\ result.out = "True"
  /\ ReachesBoundedStep(primary[1], target[1])
  /\ IsFinite(rrulestr(primary[1]).rule) /\ IsFinite(rrulestr(target[1]).rule)

\* The second event with the first event's title: the titles then score 100.
SameTitle(event1, event2) == [event2 EXCEPT !.summary = event1.summary]

\* C10: at each of the three places a title pair is accepted if and only if
\* its score is at least 90: for a pair that is a duplicate when the titles
\* are identical, the decision is "duplicate" exactly when the score is >= 90.
C10_InclusiveThresholdEverywhere ==
  LET e1 == primary[1]
      e2 == target[1]
      score == partial_ratio(e1.summary, e2.summary)
  IN
  /\ (/\ result.fn = "recurring_events_are_equal"
      /\ recurring_events_are_equal(e1, SameTitle(e1, e2)) = "True")
       => (result.out = "True" <=> score >= 90)
  /\ (/\ result.fn = "single_events_are_equal"
      /\ single_events_are_equal(e1, SameTitle(e1, e2)) = "True")
       => (result.out = "True" <=> score >= 90)
  /\ (/\ result.fn = "calfilter_filter_duplicates"
      /\ calfilter_filter_duplicates(primary, <<SameTitle(e1, e2)>>).list = <<>>)
       => (result.list = <<>> <=> score >= 90)

====
